---------------------------- MODULE Spec2Model ----------------------------
(***************************************************************************)
(* Model of the artist aggregation and revenue-estimation pipeline of      *)
(* files/artist_analyzer.py (class ArtistAnalyzer) and of the training and *)
(* prediction interface of files/ml_hit_predictor.py (class                *)
(* ArtistSuccessPredictor), and of fix_nan_in_json of fix_json.py.         *)
(*                                                                         *)
(* Representation of Python / pandas values:                               *)
(*   - a popularity cell is [kind, num]: kind "nan" is a missing value     *)
(*     (pd.isna is true), kind "num" an integer-valued number num, kind    *)
(*     "str" a non-numeric string;                                         *)
(*   - a text cell is [kind, s]: kind "nan" is a missing value, kind       *)
(*     "str" the text s, kind "none" Python's None.  The artist column     *)
(*     keeps its text as a sequence of one-character strings so that       *)
(*     split(',') and strip() are computed character by character;         *)
(*   - a function result is [exc, ...]: exc is "none" or the name of the   *)
(*     exception the call raises;                                          *)
(*   - dollar amounts are integers.  For every integer popularity the      *)
(*     float expression of estimate_song_revenue is an exact whole number  *)
(*     (all benchmark differences are multiples of 10), so sums and        *)
(*     round(x, 2) of them are exact;                                      *)
(*   - percentages and year spans rounded by round(x, 2) are kept in       *)
(*     hundredths (100.0 is 10000); an average dollar amount is kept as    *)
(*     whole dollars and hundredths;                                       *)
(*   - the seven audio features of a row are whole numbers or missing;     *)
(*     the averages of get_summary_stats are outside this model;           *)
(*   - the JSON file save_results writes is kept as the key and the token  *)
(*     kind ("string", "number", "null", "NaN") of its members;            *)
(*   - the fitted models of the predictor are "unfitted" or "fitted", with *)
(*     the call of train that fitted them; what the learning library       *)
(*     computes is outside this model;                                     *)
(*   - calculate_hotness_score takes the recent average popularity and the *)
(*     recent hit rate in hundredths and gives its scores in thousandths   *)
(*     (100.0 is 100000);                                                  *)
(*   - the text of the file fix_nan_in_json rewrites is a sequence of      *)
(*     pieces: punctuation, blank, newline, key, number and NaN.           *)
(***************************************************************************)
EXTENDS Integers, Sequences, FiniteSets, TLC

VARIABLES
    df,           \* self.df: the rows read from the CSV, in order
    pc,           \* position of the analyzer: "idle", "loop", "raised"
    idx,          \* index of the next row of the for loop of analyze_artists
    artist_data,  \* the accumulator mapping of the running analyze_artists
    returned,     \* the mappings returned by the completed analyze_artists calls
    exc,          \* the exception that aborted analyze_artists, or "none"
    summary,      \* the last result of get_summary_stats
    args,         \* inputs of the direct calls of the pure functions
    out,          \* results of the direct calls
    json_file,    \* the members of the JSON file save_results wrote last,
                  \* or the text of the file fix_nan_in_json rewrites
    predictor     \* the ArtistSuccessPredictor and its calls

vars == <<df, pc, idx, artist_data, returned, exc, summary, args, out,
          json_file, predictor>>

---------------------------------------------------------------------------
(* Bounds of the model *)

\* most rows in the data frame
MaxRows == 2
\* most calls of analyze_artists on one analyzer
MaxRuns == 2
\* most rows in the data frame of the profile claims
MaxSongs == 3
\* most songs of the artist in the analysis file the predictor trains on
MaxHistory == 4
\* most songs of the artist a prediction is asked for
MaxPredictSongs == 2
\* how far below 0 and above 100 the popularity inputs of direct calls go
PopExtra == 12
\* most days since the last release, before and after today
MaxDays == 370
\* most calls of train on one ArtistSuccessPredictor
MaxTrains == 2
\* most members of the object in a JSON file given to fix_nan_in_json
MaxMembers == 2

---------------------------------------------------------------------------
(* Values *)

NaN == [kind |-> "nan", num |-> 0]
Num(n) == [kind |-> "num", num |-> n]
NonNumeric == [kind |-> "str", num |-> 0]

NaNText == [kind |-> "nan", s |-> ""]
Text(s) == [kind |-> "str", s |-> s]
NoneText == [kind |-> "none", s |-> ""]
NaNChars == [kind |-> "nan", s |-> <<>>]
Chars(s) == [kind |-> "str", s |-> s]

Min(a, b) == IF a <= b THEN a ELSE b

\* round(num / den, 0) for num >= 0, den > 0, ties to the even neighbour
RoundDiv(num, den) ==
    LET q == num \div den
        r == num % den
    IN  IF 2 * r < den THEN q
        ELSE IF 2 * r > den THEN q + 1
        ELSE IF q % 2 = 0 THEN q ELSE q + 1

---------------------------------------------------------------------------
(* Revenue estimator *)

revenue_benchmarks_typo ==
    [p \in {0, 10, 20, 30, 40, 50, 60, 70, 80, 90, 100} |->
        CASE p = 0 -> 500       [] p = 10 -> 5000     [] p = 20 -> 12000
          [] p = 30 -> 30000    [] p = 40 -> 75000    [] p = 50 -> 15000
          [] p = 60 -> 350000   [] p = 70 -> 800000   [] p = 80 -> 2000000
          [] p = 90 -> 15000000 [] p = 100 -> 30000000]

revenue_benchmarks ==
    [p \in {0, 10, 20, 30, 40, 50, 60, 70, 80, 90, 100} |->
        CASE p = 0 -> 500       [] p = 10 -> 5000     [] p = 20 -> 12000
          [] p = 30 -> 30000    [] p = 40 -> 75000    [] p = 50 -> 150000
          [] p = 60 -> 350000   [] p = 70 -> 800000   [] p = 80 -> 2000000
          [] p = 90 -> 15000000 [] p = 100 -> 30000000]

tier_definitions_gap ==
    << [tier |-> "hit",  min_pop |-> 80, max_pop |-> 100],
       [tier |-> "good", min_pop |-> 65, max_pop |-> 78],
       [tier |-> "mid",  min_pop |-> 35, max_pop |-> 64],
       [tier |-> "bust", min_pop |-> 0,  max_pop |-> 34] >>

\* the dict keeps insertion order: hit, good, mid, bust
tier_definitions ==
    << [tier |-> "hit",  min_pop |-> 80, max_pop |-> 100],
       [tier |-> "good", min_pop |-> 65, max_pop |-> 79],
       [tier |-> "mid",  min_pop |-> 35, max_pop |-> 64],
       [tier |-> "bust", min_pop |-> 0,  max_pop |-> 34] >>

pd_isna(cell) == cell.kind = "nan"

Returns(v) == [exc |-> "none", revenue |-> v, tier |-> ""]
ReturnsTier(t) == [exc |-> "none", revenue |-> 0, tier |-> t]
Raises(e) == [exc |-> e, revenue |-> 0, tier |-> ""]

\* whether self.revenue_benchmarks[key] finds the key (a KeyError otherwise)
HasBenchmark(key) == key \in DOMAIN revenue_benchmarks

InterpolatedRevenueUncapped(p) ==
    LET lower_bound == (p \div 10) * 10
        upper_bound == lower_bound + 10
    IN  IF ~HasBenchmark(lower_bound) \/ ~HasBenchmark(upper_bound)
        THEN Raises("KeyError")
        ELSE Returns(revenue_benchmarks[lower_bound]
                     + ((revenue_benchmarks[upper_bound] - revenue_benchmarks[lower_bound])
                        * (p - lower_bound)) \div 10)

\* estimate_song_revenue from "popularity = int(popularity)" on, p the integer
InterpolatedRevenue(p) ==
    LET lower_bound == (p \div 10) * 10
        upper_bound == Min(lower_bound + 10, 100)
    IN  IF lower_bound = upper_bound
        THEN IF HasBenchmark(lower_bound)
             THEN Returns(revenue_benchmarks[lower_bound])
             ELSE Raises("KeyError")
        ELSE IF ~HasBenchmark(lower_bound) \/ ~HasBenchmark(upper_bound)
        THEN Raises("KeyError")
        ELSE
          LET lower_revenue == revenue_benchmarks[lower_bound]
              upper_revenue == revenue_benchmarks[upper_bound]
          IN  \* fraction = (p - lower_bound) / 10; the product is a whole number
              Returns(lower_revenue
                      + ((upper_revenue - lower_revenue) * (p - lower_bound)) \div 10)

estimate_song_revenue_missing_as_zero(popularity) ==
    IF pd_isna(popularity) THEN InterpolatedRevenue(0)
    ELSE IF popularity.kind = "str" THEN Raises("ValueError")
    ELSE InterpolatedRevenue(popularity.num)

estimate_song_revenue(popularity) ==
    IF pd_isna(popularity) THEN Returns(0)
    \* int(popularity) of a non-numeric string
    ELSE IF popularity.kind = "str" THEN Raises("ValueError")
    ELSE InterpolatedRevenue(popularity.num)

\* the first tier of tiers[i..] whose inclusive range holds p, else "unknown"
RECURSIVE FirstTier(_, _, _)
FirstTier(tiers, i, p) ==
    IF i > Len(tiers) THEN "unknown"
    ELSE IF tiers[i].min_pop <= p /\ p <= tiers[i].max_pop THEN tiers[i].tier
    ELSE FirstTier(tiers, i + 1, p)

classify_song(popularity) ==
    IF pd_isna(popularity) THEN ReturnsTier("unknown")
    \* min_pop <= popularity compares an int with a str
    ELSE IF popularity.kind = "str" THEN Raises("TypeError")
    ELSE ReturnsTier(FirstTier(tier_definitions, 1, popularity.num))

---------------------------------------------------------------------------
(* Artist aggregator: parsing *)

\* str.split(sep): the pieces of s between the occurrences of sep
RECURSIVE split(_, _)
split(s, sep) ==
    IF \A i \in 1..Len(s) : s[i] # sep THEN <<s>>
    ELSE LET i == CHOOSE k \in 1..Len(s) :
                    s[k] = sep /\ \A j \in 1..(k - 1) : s[j] # sep
         IN  <<SubSeq(s, 1, i - 1)>> \o split(SubSeq(s, i + 1, Len(s)), sep)

\* str.strip(): s without its leading and trailing blanks
RECURSIVE strip(_)
strip(s) ==
    IF s = <<>> THEN s
    ELSE IF Head(s) = " " THEN strip(Tail(s))
    ELSE IF s[Len(s)] = " " THEN strip(SubSeq(s, 1, Len(s) - 1))
    ELSE s

parse_artists_unstripped(artist_string) ==
    IF pd_isna(artist_string) THEN <<>>
    ELSE SelectSeq(split(artist_string.s, ","), LAMBDA a : a # <<>>)

parse_artists_keeping_empty(artist_string) ==
    IF pd_isna(artist_string) THEN <<>>
    ELSE LET pieces == split(artist_string.s, ",")
         IN  [i \in 1..Len(pieces) |-> strip(pieces[i])]

parse_artists(artist_string) ==
    IF pd_isna(artist_string) THEN <<>>
    ELSE LET pieces == split(artist_string.s, ",")
             artists == [i \in 1..Len(pieces) |-> strip(pieces[i])]
         IN  SelectSeq(artists, LAMBDA a : a # <<>>)

\* pd.to_datetime on the date texts of the model: the day number
\* (date.toordinal()) of an ISO date, no value for any other text
DayNumber(s) ==
    CASE s = "2020-01-01" -> 737425
      [] s = "2021-01-01" -> 737791
      [] OTHER -> 0

NoDate == [kind |-> "none", day |-> 0]
Date(d) == [kind |-> "date", day |-> d]

parse_release_date(date_string) ==
    IF pd_isna(date_string) THEN NoDate
    ELSE IF DayNumber(date_string.s) = 0 THEN NoDate
    ELSE Date(DayNumber(date_string.s))

---------------------------------------------------------------------------
(* Artist aggregator: accumulation *)

FeatureNames ==
    {"energy", "danceability", "positiveness", "speechiness",
     "liveness", "acousticness", "instrumentalness"}

AppendFeatureOrZero(values, cell) ==
    IF ~pd_isna(cell) THEN Append(values, cell.num) ELSE Append(values, 0)

\* if the column is in the row and its value is not missing: append the value
AppendFeature(values, cell) ==
    IF ~pd_isna(cell) THEN Append(values, cell.num) ELSE values

\* the value the defaultdict creates for an artist seen for the first time
NewArtist ==
    [ songs |-> <<>>, total_songs |-> 0,
      hit_songs |-> 0, good_songs |-> 0, mid_songs |-> 0, bust_songs |-> 0,
      total_revenue |-> 0,
      genres |-> <<>>,          \* (genre, count) pairs in insertion order
      explicit_count |-> 0,
      release_dates |-> <<>>,
      audio_features |-> [f \in FeatureNames |-> <<>>] ]

\* data['genres'][genre] += 1 on a defaultdict(int)
CountGenre(genres, genre) ==
    IF \E i \in 1..Len(genres) : genres[i].genre = genre
    THEN [i \in 1..Len(genres) |->
            IF genres[i].genre = genre
            THEN [genres[i] EXCEPT !.count = @ + 1]
            ELSE genres[i]]
    ELSE Append(genres, [genre |-> genre, count |-> 1])

UpdateArtistSkippingUnknown(data, row, tier, revenue) ==
    LET release_date == parse_release_date(row.ReleaseDate)
    IN  [data EXCEPT
          !.total_songs = IF tier = "unknown" THEN @ ELSE @ + 1,
          !.songs = Append(@, [title |-> row.song,
                               popularity |-> row.Popularity,
                               tier |-> tier,
                               revenue |-> revenue,
                               release_date |-> row.ReleaseDate]),
          !.hit_songs  = IF tier = "hit"  THEN @ + 1 ELSE @,
          !.good_songs = IF tier = "good" THEN @ + 1 ELSE @,
          !.mid_songs  = IF tier = "mid"  THEN @ + 1 ELSE @,
          !.bust_songs = IF tier = "bust" THEN @ + 1 ELSE @,
          !.total_revenue = @ + revenue,
          !.genres = IF ~pd_isna(row.Genre) THEN CountGenre(@, row.Genre.s) ELSE @,
          !.explicit_count = IF row.Explicit = Text("Yes") THEN @ + 1 ELSE @,
          !.release_dates = IF release_date.kind = "date"
                            THEN Append(@, release_date.day) ELSE @,
          !.audio_features = [f \in FeatureNames |-> AppendFeature(@[f], row.features[f])]]

\* the body of "for artist in artists" for one artist
UpdateArtistCountingUnknownAsBust(data, row, tier, revenue) ==
    LET release_date == parse_release_date(row.ReleaseDate)
    IN  [data EXCEPT
          !.total_songs = @ + 1,
          !.songs = Append(@, [title |-> row.song,
                               popularity |-> row.Popularity,
                               tier |-> tier,
                               revenue |-> revenue,
                               release_date |-> row.ReleaseDate]),
          !.hit_songs  = IF tier = "hit"  THEN @ + 1 ELSE @,
          !.good_songs = IF tier = "good" THEN @ + 1 ELSE @,
          !.mid_songs  = IF tier = "mid"  THEN @ + 1 ELSE @,
          !.bust_songs = IF tier \in {"bust", "unknown"} THEN @ + 1 ELSE @,
          !.total_revenue = @ + revenue,
          !.genres = IF ~pd_isna(row.Genre) THEN CountGenre(@, row.Genre.s) ELSE @,
          !.explicit_count = IF row.Explicit = Text("Yes") THEN @ + 1 ELSE @,
          !.release_dates = IF release_date.kind = "date"
                            THEN Append(@, release_date.day) ELSE @,
          !.audio_features = [f \in FeatureNames |-> AppendFeature(@[f], row.features[f])]]

UpdateArtist(data, row, tier, revenue) ==
    LET release_date == parse_release_date(row.ReleaseDate)
    IN  [data EXCEPT
          !.total_songs = @ + 1,
          !.songs = Append(@, [title |-> row.song,
                               popularity |-> row.Popularity,
                               tier |-> tier,
                               revenue |-> revenue,
                               release_date |-> row.ReleaseDate]),
          !.hit_songs  = IF tier = "hit"  THEN @ + 1 ELSE @,
          !.good_songs = IF tier = "good" THEN @ + 1 ELSE @,
          !.mid_songs  = IF tier = "mid"  THEN @ + 1 ELSE @,
          !.bust_songs = IF tier = "bust" THEN @ + 1 ELSE @,
          !.total_revenue = @ + revenue,
          !.genres = IF ~pd_isna(row.Genre) THEN CountGenre(@, row.Genre.s) ELSE @,
          !.explicit_count = IF row.Explicit = Text("Yes") THEN @ + 1 ELSE @,
          !.release_dates = IF release_date.kind = "date"
                            THEN Append(@, release_date.day) ELSE @,
          !.audio_features = [f \in FeatureNames |-> AppendFeature(@[f], row.features[f])]]

\* artist_data[artist] of the defaultdict
Lookup(ad, artist) == IF artist \in DOMAIN ad THEN ad[artist] ELSE NewArtist

RECURSIVE CreditArtists(_, _, _, _, _)
CreditFirstArtistOnly(ad, artists, row, tier, revenue) ==
    IF artists = <<>> THEN ad
    ELSE LET artist == Head(artists)
         IN  [a \in DOMAIN ad \cup {artist} |->
                IF a = artist
                THEN UpdateArtist(Lookup(ad, artist), row, tier, revenue)
                ELSE ad[a]]

\* the loop "for artist in artists": every credited name in turn
CreditArtists(ad, artists, row, tier, revenue) ==
    IF artists = <<>> THEN ad
    ELSE LET artist == Head(artists)
             updated == [a \in DOMAIN ad \cup {artist} |->
                           IF a = artist
                           THEN UpdateArtist(Lookup(ad, artist), row, tier, revenue)
                           ELSE ad[a]]
         IN  CreditArtists(updated, Tail(artists), row, tier, revenue)

---------------------------------------------------------------------------
(* Artist aggregator: derived metrics and summary *)

\* round(count / total * 100, 2) in hundredths, 0 when total is 0
Rate(count, total) ==
    IF total > 0 THEN RoundDiv(count * 10000, total) ELSE 0

\* round(amount / n, 2) as whole dollars and hundredths, 0 when n is 0
Average(amount, n) ==
    IF n > 0
    THEN LET whole == amount \div n
             frac == RoundDiv((amount % n) * 100, n)
         IN  IF frac = 100 THEN [dollars |-> whole + 1, hundredths |-> 0]
             ELSE [dollars |-> whole, hundredths |-> frac]
    ELSE [dollars |-> 0, hundredths |-> 0]

\* max(genres.items(), key=count)[0]: the first genre with the highest count
PrimaryGenreLast(genres) ==
    IF genres = <<>> THEN NoneText
    ELSE LET i == CHOOSE k \in 1..Len(genres) :
                    /\ \A j \in 1..Len(genres) : genres[j].count <= genres[k].count
                    /\ \A j \in (k + 1)..Len(genres) : genres[j].count < genres[k].count
         IN  Text(genres[i].genre)

PrimaryGenre(genres) ==
    IF genres = <<>> THEN NoneText
    ELSE LET i == CHOOSE k \in 1..Len(genres) :
                    /\ \A j \in 1..Len(genres) : genres[j].count <= genres[k].count
                    /\ \A j \in 1..(k - 1) : genres[j].count < genres[k].count
         IN  Text(genres[i].genre)

FirstOf(seq) == seq[1]

LastOf(seq) == seq[Len(seq)]

MinOf(seq) == CHOOSE x \in {seq[i] : i \in 1..Len(seq)} :
                 \A i \in 1..Len(seq) : x <= seq[i]
MaxOf(seq) == CHOOSE x \in {seq[i] : i \in 1..Len(seq)} :
                 \A i \in 1..Len(seq) : x >= seq[i]

RECURSIVE SumSeq(_)
SumSeq(values) ==
    IF values = <<>> THEN 0 ELSE Head(values) + SumSeq(Tail(values))

\* round(np.mean(values), 2) in hundredths, 0 for an empty list
AverageFeature(values) ==
    IF values # <<>> THEN RoundDiv(SumSeq(values) * 100, Len(values)) ELSE 0

\* one entry of final_data
ArtistProfile(data) ==
    LET total == data.total_songs
        dated == data.release_dates # <<>>
        first_release == IF dated THEN Date(MinOf(data.release_dates)) ELSE NoDate
        last_release  == IF dated THEN Date(MaxOf(data.release_dates)) ELSE NoDate
        career_span_days == last_release.day - first_release.day
    IN  [ total_songs |-> total,
          hit_songs |-> data.hit_songs,
          good_songs |-> data.good_songs,
          mid_songs |-> data.mid_songs,
          bust_songs |-> data.bust_songs,
          hit_rate |-> Rate(data.hit_songs, total),
          good_rate |-> Rate(data.good_songs, total),
          mid_rate |-> Rate(data.mid_songs, total),
          bust_rate |-> Rate(data.bust_songs, total),
          \* round(x, 2) of a whole number of dollars
          estimated_total_revenue |-> data.total_revenue,
          avg_revenue_per_song |-> Average(data.total_revenue, total),
          primary_genre |-> PrimaryGenre(data.genres),
          genre_distribution |-> data.genres,
          explicit_ratio |-> Rate(data.explicit_count, total),
          first_release |-> first_release,
          last_release |-> last_release,
          \* round(days / 365.25, 2) in hundredths
          career_span_years |-> IF dated THEN RoundDiv(career_span_days * 400, 1461) ELSE 0,
          \* avg_energy, avg_danceability, ...
          avg_features |-> [f \in FeatureNames |-> AverageFeature(data.audio_features[f])],
          songs |-> data.songs ]

FinalData(ad) == [artist \in DOMAIN ad |-> ArtistProfile(ad[artist])]

\* sum(f[k][field] for k in keys)
RECURSIVE SumField(_, _, _)
SumField(f, keys, field) ==
    IF keys = {} THEN 0
    ELSE LET k == CHOOSE x \in keys : TRUE
         IN  f[k][field] + SumField(f, keys \ {k}, field)

NoSummary ==
    [computed |-> FALSE, of |-> 0,
     total_artists |-> 0, total_songs |-> 0, total_estimated_revenue |-> 0]

\* data.values(): the entries of the mapping, one after the other
RECURSIVE Values(_, _)
Values(data, keys) ==
    IF keys = {} THEN <<>>
    ELSE LET k == CHOOSE x \in keys : TRUE
         IN  <<data[k]>> \o Values(data, keys \ {k})

\* sum(d[field] for d in values), from 0, left to right
RECURSIVE SumOf(_, _)
SumOf(values, field) ==
    IF values = <<>> THEN 0
    ELSE SumOf(SubSeq(values, 1, Len(values) - 1), field) + values[Len(values)][field]

get_summary_stats_hits(data, n) ==
    LET values == Values(data, DOMAIN data)
    IN  [computed |-> TRUE, of |-> n,
         total_artists |-> Cardinality(DOMAIN data),
         total_songs |-> SumOf(values, "hit_songs"),
         total_estimated_revenue |-> SumOf(values, "estimated_total_revenue")]

\* the totals of the summary of mapping data, the n-th mapping returned
get_summary_stats(data, n) ==
    LET values == Values(data, DOMAIN data)
    IN  [computed |-> TRUE, of |-> n,
         total_artists |-> Cardinality(DOMAIN data),          \* len(artist_data)
         total_songs |-> SumOf(values, "total_songs"),
         \* round(total_revenue, 2) of a whole number of dollars
         total_estimated_revenue |-> SumOf(values, "estimated_total_revenue")]

\* the loop of analyze_artists over rows that raise nothing
RECURSIVE Accumulate(_, _)
Accumulate(ad, rows) ==
    IF rows = <<>> THEN ad
    ELSE LET row == Head(rows)
         IN  Accumulate(CreditArtists(ad, parse_artists(row.Artists), row,
                                      classify_song(row.Popularity).tier,
                                      estimate_song_revenue(row.Popularity).revenue),
                        Tail(rows))

\* the mapping analyze_artists returns for a data frame with these rows
analyze_artists(rows) == FinalData(Accumulate([a \in {} |-> NewArtist], rows))

---------------------------------------------------------------------------
(* save_results: what json.dump writes for the values of the output.  A   *)
(* member of a JSON object is written as its key and the token of its      *)
(* value; json.dump writes a float nan as the token NaN and None as null.  *)

Member(key, token) == [key |-> key, token |-> token]

\* the token of a number that may be the float nan
NumberToken(cell) == IF pd_isna(cell) THEN "NaN" ELSE "number"

\* the token of a cell of a text column: a string, the float nan, or None
TextToken(cell) ==
    IF cell.kind = "str" THEN "string"
    ELSE IF cell.kind = "none" THEN "null"
    ELSE "NaN"

\* the token of str(date) or None
DateToken(date) == IF date.kind = "date" THEN "string" ELSE "null"

\* one record of the songs list of a profile
SongMembers(song) ==
    << Member("title", "string"),
       Member("popularity", NumberToken(song.popularity)),
       Member("tier", "string"),
       Member("revenue", "number"),
       Member("release_date", TextToken(song.release_date)) >>

\* the members of a profile that can be absent, and one computed number
ProfileMembers(profile) ==
    << Member("total_songs", "number"),
       Member("primary_genre", TextToken(profile.primary_genre)),
       Member("first_release", DateToken(profile.first_release)),
       Member("last_release", DateToken(profile.last_release)),
       Member("career_span_years", "number") >>

NoFile == [written |-> FALSE, of |-> 0, summary |-> NoSummary, artists |-> <<>>]

\* the file save_results writes for mapping data, the n-th mapping returned
save_results(data, n) ==
    [written |-> TRUE, of |-> n,
     summary |-> get_summary_stats(data, n),
     artists |-> [artist \in DOMAIN data |->
        [profile |-> ProfileMembers(data[artist]),
         songs |-> [i \in DOMAIN data[artist].songs |->
                       SongMembers(data[artist].songs[i])]]]]

\* the tokens of the values the file holds
FileTokens(file) ==
    UNION {
        {file.artists[a].profile[i].token : i \in DOMAIN file.artists[a].profile}
        \cup UNION {{file.artists[a].songs[j][k].token :
                        k \in DOMAIN file.artists[a].songs[j]} :
                    j \in DOMAIN file.artists[a].songs}
        : a \in DOMAIN file.artists }

---------------------------------------------------------------------------
(* ArtistSuccessPredictor: the features of an artist.  An artist's data is *)
(* its list of song detail records as json.load reads them from the        *)
(* analysis file: release_date is a text, the float nan, or None.          *)

Song(title, popularity, tier, release_date) ==
    [title |-> title, popularity |-> popularity, tier |-> tier,
     release_date |-> release_date]

\* s.get('release_date') and not pd.isna(s.get('release_date'))
HasReleaseDate(song) ==
    song.release_date.kind = "str" /\ song.release_date.s # ""

valid_songs(songs) == SelectSeq(songs, HasReleaseDate)

\* the order of str(x['release_date']) on the date texts of the model:
\* a text that starts with a digit sorts before one that starts with a letter
StrRank(s) ==
    CASE s = "2020-01-01" -> 1
      [] s = "2021-01-01" -> 2
      [] OTHER -> 3

\* insert song after the songs whose key is not greater (sorted is stable)
RECURSIVE Insert(_, _)
Insert(sorted, song) ==
    IF sorted = <<>> THEN <<song>>
    ELSE IF StrRank(sorted[Len(sorted)].release_date.s) <= StrRank(song.release_date.s)
    THEN Append(sorted, song)
    ELSE Append(Insert(SubSeq(sorted, 1, Len(sorted) - 1), song), sorted[Len(sorted)])

\* sorted(valid_songs, key=lambda x: str(x['release_date']))
RECURSIVE songs_sorted(_)
songs_sorted(valid) ==
    IF valid = <<>> THEN <<>>
    ELSE Insert(songs_sorted(SubSeq(valid, 1, Len(valid) - 1)), valid[Len(valid)])

NoFeatures == [kind |-> "none", exc |-> "none",
               total_songs |-> 0, hit_songs |-> 0, career_days |-> 0, energy |-> 0]

FeaturesRaise(e) == [NoFeatures EXCEPT !.kind = "raise", !.exc = e]

CountTier(songs, tier) ==
    Cardinality({i \in 1..Len(songs) : songs[i].tier = tier})

\* the Energy column of the row of the data frame a song was made of
RowEnergy == [title \in {"H", "M", "N", "W"} |->
                 IF title = "M" THEN 40 ELSE IF title = "N" THEN 60 ELSE 80]

RECURSIVE Energies(_)
Energies(songs) ==
    IF songs = <<>> THEN <<>>
    ELSE <<RowEnergy[Head(songs).title]>> \o Energies(Tail(songs))

\* the entry analyze_artists writes for an artist with these songs: the
\* songs and avg_energy, the mean of the Energy of all of them
ArtistData(songs) ==
    [songs |-> songs, avg_energy |-> AverageFeature(Energies(songs))]

\* prepare_artist_features: None, the features, or what pd.to_datetime raises
\* for the first or the last release date
prepare_artist_features(data) ==
    LET songs == data.songs
        sorted == songs_sorted(valid_songs(songs))
    IN  IF songs = <<>> THEN NoFeatures
        ELSE IF sorted = <<>> THEN NoFeatures
        ELSE IF Len(sorted) < 2 THEN NoFeatures
        ELSE IF DayNumber(sorted[1].release_date.s) = 0
                \/ DayNumber(sorted[Len(sorted)].release_date.s) = 0
        THEN FeaturesRaise("ValueError")
        ELSE [kind |-> "features", exc |-> "none",
              total_songs |-> Len(sorted),
              hit_songs |-> CountTier(sorted, "hit"),
              career_days |-> DayNumber(sorted[Len(sorted)].release_date.s)
                                - DayNumber(sorted[1].release_date.s),
              energy |-> data.avg_energy]

\* the loop "for i in range(len(songs_sorted) - 2)" from index i on: the
\* examples appended, or the exception prepare_artist_features raises
RECURSIVE ExamplesFrom(_, _, _)
ExamplesFrom(data, sorted, i) ==
    IF i > Len(sorted) - 3 THEN [exc |-> "none", examples |-> <<>>]
    ELSE LET historical_songs == SubSeq(sorted, 1, i + 1)
             target_song == sorted[i + 2]
             temp_artist_data == [songs |-> historical_songs,
                                  avg_energy |-> data.avg_energy]
             features == prepare_artist_features(temp_artist_data)
             rest == ExamplesFrom(data, sorted, i + 1)
         IN  IF features.kind = "raise"
             THEN [exc |-> features.exc, examples |-> <<>>]
             ELSE IF rest.exc # "none" THEN rest
             ELSE IF features.kind = "features"
             THEN [rest EXCEPT !.examples =
                      <<[i |-> i, historical_songs |-> historical_songs,
                         features |-> features,
                         target_is_hit |-> IF target_song.tier = "hit" THEN 1 ELSE 0,
                         target_popularity |-> target_song.popularity,
                         target_song |-> target_song]>> \o @]
             ELSE rest

\* the training examples prepare_training_data makes of one artist's songs
training_examples(songs) ==
    IF Len(songs) < 3 THEN [exc |-> "none", examples |-> <<>>]
    ELSE IF Len(valid_songs(songs)) < 3 THEN [exc |-> "none", examples |-> <<>>]
    ELSE ExamplesFrom(ArtistData(songs), songs_sorted(valid_songs(songs)), 0)

\* prepare_training_data: df['target_is_hit'] of a frame without rows has
\* no such column
prepare_training_data(songs) ==
    LET made == training_examples(songs)
    IN  IF made.exc = "none" /\ made.examples = <<>>
        THEN [made EXCEPT !.exc = "KeyError"]
        ELSE made

predicted_tier_above(predicted_popularity) ==
    IF predicted_popularity > 80 THEN "hit"
    ELSE IF predicted_popularity > 65 THEN "good"
    ELSE IF predicted_popularity > 35 THEN "mid"
    ELSE "bust"

\* the tier of a predicted popularity
predicted_tier(predicted_popularity) ==
    IF predicted_popularity >= 80 THEN "hit"
    ELSE IF predicted_popularity >= 65 THEN "good"
    ELSE IF predicted_popularity >= 35 THEN "mid"
    ELSE "bust"

NoResult ==
    [kind |-> "none", exc |-> "none", error |-> "", min_songs_required |-> 0,
     predicted_popularity |-> 0, predicted_tier |-> ""]

NoCallYet == [op |-> "none", input |-> <<>>, result |-> NoResult]

\* ArtistSuccessPredictor.__init__, no analysis file read
NothingMade == [exc |-> "none", examples |-> <<>>]

NoPredictor ==
    [ is_trained |-> FALSE,
      feature_names |-> FALSE,              \* the attribute is set
      scaler |-> "unfitted",
      hit_classifier |-> "unfitted",
      popularity_regressor |-> "unfitted",
      pc |-> "idle",                        \* where train is
      train_calls |-> 0,                    \* how often train was called
      fitted_by |-> [ scaler |-> 0,         \* the call of train that fitted or set
                      hit_classifier |-> 0, \* each attribute, 0 for none
                      popularity_regressor |-> 0,
                      feature_names |-> 0 ],
      file |-> <<>>,                        \* while train runs: the songs of the artist
                                            \* in the analysis file it was given
      made |-> NothingMade,                 \* while train runs: what
                                            \* prepare_training_data made of them
      exc |-> "none",                       \* what the last call of train raised
      call |-> NoCallYet ]                  \* the last call of predict_next_song

---------------------------------------------------------------------------
(* The data frame *)

\* a row whose seven audio feature values are missing
Row(song, artists, popularity, genre, explicit, release_date) ==
    [song |-> song, Artists |-> artists, Popularity |-> popularity,
     Genre |-> genre, Explicit |-> explicit, ReleaseDate |-> release_date,
     features |-> [f \in FeatureNames |-> NaN]]

\* the row with the values of Energy and Danceability set
WithFeatures(row, energy, danceability) ==
    [row EXCEPT !.features = [f \in FeatureNames |->
        IF f = "energy" THEN energy
        ELSE IF f = "danceability" THEN danceability
        ELSE NaN]]

ArtistA == <<"A">>
ArtistB == <<"B">>
ArtistC == <<"C">>

ArtistStrings ==
    { NaNChars,
      Chars(<<",">>),
      Chars(<<"A">>),
      Chars(<<"A", ",", " ", "B">>),
      Chars(<<"B", ",", "B">>),
      Chars(<<"C">>) }

UsablePopularity == {NaN, Num(45), Num(82)}
MalformedPopularity == {Num(0 - 5), Num(110), NonNumeric}

Rows ==
    {Row("X", a, p, Text("pop"), Text("No"), Text("2020-01-01")) :
        a \in ArtistStrings, p \in UsablePopularity}
    \cup {Row("Y", Chars(<<"A">>), p, NaNText, Text("Yes"), NaNText) :
        p \in UsablePopularity}
    \cup {Row("Z", Chars(<<"A", ",", " ", "B">>), p, Text("rock"), Text("Yes"),
              Text("2021-01-01")) :
        p \in MalformedPopularity}

\* rows of songs that differ in genre, release date and audio features
ProfileRows ==
    { WithFeatures(Row("P", Chars(<<"A">>), Num(45), Text("pop"), Text("No"),
                       Text("2020-01-01")), Num(40), NaN),
      WithFeatures(Row("Q", Chars(<<"A">>), Num(82), Text("rock"), Text("Yes"),
                       Text("2021-01-01")), Num(81), Num(40)),
      WithFeatures(Row("R", Chars(<<"A", ",", " ", "B">>), Num(45), Text("rock"), Text("No"),
                       NaNText), NaN, Num(81)),
      WithFeatures(Row("S", Chars(<<"A">>), NaN, NaNText, Text("Yes"),
                       Text("notadate")), Num(40), NaN),
      WithFeatures(Row("T", Chars(<<"B">>), Num(82), Text("pop"), Text("No"),
                       Text("2021-01-01")), Num(41), Num(40)),
      Row("U", Chars(<<"A", ",", " ", "B">>), Num(45), Text("pop"), Text("No"),
          Text("2020-01-01")) }

RECURSIVE SeqsUpTo(_, _)
SeqsUpTo(S, n) ==
    IF n = 0 THEN {<<>>}
    ELSE LET shorter == SeqsUpTo(S, n - 1)
         IN  shorter \cup {Append(q, x) : q \in shorter, x \in S}

---------------------------------------------------------------------------
(* The analyzer *)

NoArtistData == [a \in {} |-> NewArtist]

Init ==
    /\ df \in SeqsUpTo(Rows, MaxRows)
    /\ pc = "idle"
    /\ idx = 1
    /\ artist_data = NoArtistData
    /\ returned = <<>>
    /\ exc = "none"
    /\ summary = NoSummary
    /\ args = <<>>
    /\ out = [fn |-> "", rets |-> <<>>]
    /\ json_file = NoFile
    /\ predictor = NoPredictor

\* the analyzer constructed on a data frame of songs of two artists
ProfilesInit ==
    /\ df \in SeqsUpTo(ProfileRows, MaxSongs)
    /\ pc = "idle"
    /\ idx = 1
    /\ artist_data = NoArtistData
    /\ returned = <<>>
    /\ exc = "none"
    /\ summary = NoSummary
    /\ args = <<>>
    /\ out = [fn |-> "", rets |-> <<>>]
    /\ json_file = NoFile
    /\ predictor = NoPredictor

CarriedArtistData == artist_data

\* artist_data = defaultdict(...): a new, empty mapping at every call
NewArtistData == [a \in {} |-> NewArtist]

\* analyze_artists is called
AnalyzeArtistsStart ==
    /\ pc = "idle"
    /\ Len(returned) < MaxRuns
    /\ pc' = "loop"
    /\ idx' = 1
    /\ artist_data' = NewArtistData
    /\ UNCHANGED <<df, returned, exc, summary, args, out, json_file, predictor>>

\* one iteration of "for idx, row in self.df.iterrows()"
AnalyzeArtistsRow ==
    /\ pc = "loop"
    /\ idx <= Len(df)
    /\ LET row == df[idx]
           artists == parse_artists(row.Artists)
           tier == classify_song(row.Popularity)
           revenue == estimate_song_revenue(row.Popularity)
       IN  IF tier.exc # "none"
           THEN /\ pc' = "raised"
                /\ exc' = tier.exc
                /\ UNCHANGED <<idx, artist_data>>
           ELSE IF revenue.exc # "none"
           THEN /\ pc' = "raised"
                /\ exc' = revenue.exc
                /\ UNCHANGED <<idx, artist_data>>
           ELSE /\ artist_data' =
                     CreditArtists(artist_data, artists, row, tier.tier, revenue.revenue)
                /\ idx' = idx + 1
                /\ UNCHANGED <<pc, exc>>
    /\ UNCHANGED <<df, returned, summary, args, out, json_file, predictor>>

\* the rows are exhausted: derived metrics, return final_data
AnalyzeArtistsReturn ==
    /\ pc = "loop"
    /\ idx > Len(df)
    /\ returned' = Append(returned, FinalData(artist_data))
    /\ pc' = "idle"
    /\ UNCHANGED <<df, idx, artist_data, exc, summary, args, out, json_file, predictor>>

GetSummaryStatsConsuming ==
    /\ pc = "idle"
    /\ returned # <<>>
    /\ summary' = get_summary_stats(returned[Len(returned)], Len(returned))
    /\ returned' = [returned EXCEPT ![Len(returned)] =
                        [a \in DOMAIN @ |-> [@[a] EXCEPT !.songs = <<>>]]]
    /\ UNCHANGED <<df, pc, idx, artist_data, exc, args, out, json_file, predictor>>

\* get_summary_stats(artist_data) on the mapping analyze_artists returned last
GetSummaryStats ==
    /\ pc = "idle"
    /\ returned # <<>>
    /\ summary' = get_summary_stats(returned[Len(returned)], Len(returned))
    /\ UNCHANGED <<df, pc, idx, artist_data, returned, exc, args, out, json_file, predictor>>

\* save_results(artist_data, path) on the mapping analyze_artists returned last
SaveResults ==
    /\ pc = "idle"
    /\ returned # <<>>
    /\ json_file' = save_results(returned[Len(returned)], Len(returned))
    /\ UNCHANGED <<df, pc, idx, artist_data, returned, exc, summary, args, out, predictor>>

Next ==
    \/ AnalyzeArtistsStart
    \/ AnalyzeArtistsRow
    \/ AnalyzeArtistsReturn
    \/ GetSummaryStats
    \/ SaveResults

Spec == Init /\ [][Next]_vars

SpecProfiles == ProfilesInit /\ [][Next]_vars

---------------------------------------------------------------------------
(* Direct calls of the estimator functions on a pair of popularity values *)

PopInputs ==
    {Num(n) : n \in (0 - PopExtra)..(100 + PopExtra)} \cup {NaN, NonNumeric}

NoCall == [fn |-> "", rets |-> <<>>]

PipelineUnused ==
    /\ df = <<>>
    /\ pc = "idle"
    /\ idx = 1
    /\ artist_data = NoArtistData
    /\ returned = <<>>
    /\ exc = "none"
    /\ summary = NoSummary
    /\ json_file = NoFile
    /\ predictor = NoPredictor

\* no analyzer has run and no function was called
AnalyzerNotRun ==
    /\ df = <<>>
    /\ pc = "idle"
    /\ idx = 1
    /\ artist_data = NoArtistData
    /\ returned = <<>>
    /\ exc = "none"
    /\ summary = NoSummary
    /\ args = <<>>
    /\ out = NoCall

EstimatorInit ==
    /\ args \in PopInputs \X PopInputs
    /\ out = NoCall
    /\ PipelineUnused

CallEstimateSongRevenue ==
    /\ args # <<>>
    /\ out' = [fn |-> "estimate_song_revenue",
               rets |-> <<estimate_song_revenue(args[1]), estimate_song_revenue(args[2])>>]
    /\ UNCHANGED <<df, pc, idx, artist_data, returned, exc, summary, args, json_file, predictor>>

CallClassifySong ==
    /\ args # <<>>
    /\ out' = [fn |-> "classify_song",
               rets |-> <<classify_song(args[1]), classify_song(args[2])>>]
    /\ UNCHANGED <<df, pc, idx, artist_data, returned, exc, summary, args, json_file, predictor>>

\* the tier predict_next_song derives from a predicted popularity
CallPredictedTier ==
    /\ args # <<>>
    /\ args[1].kind = "num"
    /\ args[2].kind = "num"
    /\ out' = [fn |-> "predicted_tier",
               rets |-> <<ReturnsTier(predicted_tier(args[1].num)),
                          ReturnsTier(predicted_tier(args[2].num))>>]
    /\ UNCHANGED <<df, pc, idx, artist_data, returned, exc, summary, args, json_file, predictor>>

EstimatorNext == CallEstimateSongRevenue \/ CallClassifySong \/ CallPredictedTier

SpecEstimator == EstimatorInit /\ [][EstimatorNext]_vars

---------------------------------------------------------------------------
(* ArtistSuccessPredictor.calculate_hotness_score.  recent_avg_pop is in   *)
(* hundredths of a popularity point (100.0 is 10000), recent_hit_rate in   *)
(* hundredths (1.0 is 100), and the scores are in thousandths of a point   *)
(* (100.0 is 100000), so that every product below is a whole number.       *)

performance_score_unscaled(recent_avg_pop) == recent_avg_pop * 400

\* performance_score = (recent_avg_pop / 100) * 40
performance_score(recent_avg_pop) == recent_avg_pop * 4

recency_score(days_since_last) ==
    IF days_since_last <= 30 THEN 30000
    ELSE IF days_since_last <= 90 THEN 25000
    ELSE IF days_since_last <= 180 THEN 15000
    ELSE IF days_since_last <= 365 THEN 5000
    ELSE 0

\* success_score = recent_hit_rate * 30
success_score(recent_hit_rate) == recent_hit_rate * 300

calculate_hotness_score(recent_avg_pop, days_since_last, recent_hit_rate) ==
    LET hotness == performance_score(recent_avg_pop)
                     + recency_score(days_since_last)
                     + success_score(recent_hit_rate)
    IN  Min(hotness, 100000)

\* averages of up to five popularities in 0..100
RecentAvgPops == {0, 1, 4500, 6667, 9999, 10000}

\* hits among up to five recent songs
RecentHitRates == {0, 20, 33, 50, 100}

\* a release up to MaxDays days in the past or, for a date in the future,
\* ahead of today
DaysSinceLast == (0 - MaxDays)..MaxDays

HotnessInit ==
    /\ args \in [recent_avg_pop : RecentAvgPops,
                 days_since_last : DaysSinceLast,
                 recent_hit_rate : RecentHitRates]
    /\ out = NoCall
    /\ PipelineUnused

CallCalculateHotnessScore ==
    /\ out' = [fn |-> "calculate_hotness_score",
               rets |-> <<calculate_hotness_score(args.recent_avg_pop,
                                                   args.days_since_last,
                                                   args.recent_hit_rate)>>]
    /\ UNCHANGED <<df, pc, idx, artist_data, returned, exc, summary, args, json_file, predictor>>

HotnessNext == CallCalculateHotnessScore

SpecHotness == HotnessInit /\ [][HotnessNext]_vars

---------------------------------------------------------------------------
(* fix_json.py: fix_nan_in_json.  The content of a file is a sequence of   *)
(* pieces of text: the punctuation of JSON, a blank, a newline, a key, the *)
(* number 1 and the token NaN.  re.sub replaces, from left to right, every *)
(* match of  :\s*NaN\s*([,\n\}])  by ": null" and the matched group.       *)

IsSpace(piece) == piece \in {" ", "\n"}

\* the first position from i on that holds no white space
RECURSIVE SkipSpace(_, _)
SkipSpace(content, i) ==
    IF i <= Len(content) /\ IsSpace(content[i]) THEN SkipSpace(content, i + 1) ELSE i

\* the match of the pattern that starts at position i, if there is one:
\* \s* takes as much white space as it can and gives back down to the last
\* newline when the piece after the white space is not in [,\n\}]
MatchAt(content, i) ==
    LET nan == SkipSpace(content, i + 1)
        after == SkipSpace(content, nan + 1)
        newlines == {k \in (nan + 1)..(after - 1) : content[k] = "\n"}
    IN  IF content[i] # ":" \/ nan > Len(content) \/ content[nan] # "NaN"
        THEN [matched |-> FALSE, end |-> i]
        ELSE IF after <= Len(content) /\ content[after] \in {",", "}"}
        THEN [matched |-> TRUE, end |-> after]
        ELSE IF newlines # {}
        THEN [matched |-> TRUE, end |-> CHOOSE k \in newlines : \A j \in newlines : j <= k]
        ELSE [matched |-> FALSE, end |-> i]

\* re.sub(r':\s*NaN\s*([,\n\}])', r': null\1', content) from position i on
RECURSIVE Substitute(_, _)
Substitute(content, i) ==
    IF i > Len(content) THEN <<>>
    ELSE LET m == MatchAt(content, i)
         IN  IF m.matched
             THEN <<":", " ", "null", content[m.end]>> \o Substitute(content, m.end + 1)
             ELSE <<content[i]>> \o Substitute(content, i + 1)

fix_nan_in_json(content) == Substitute(content, 1)

\* the values of the members: a number, NaN, or an array of two of them
JsonValues ==
    {<<"1">>, <<"NaN">>}
    \cup {<<"[", x, ",", " ", y, "]">> : x, y \in {"1", "NaN"}}

\* "key": value, written with or without the blank after the colon
MemberTexts ==
    {<<"key", ":">> \o blank \o value : blank \in {<<>>, <<" ">>}, value \in JsonValues}

\* n members, a comma and a newline between them
RECURSIVE MembersTexts(_)
MembersTexts(n) ==
    IF n = 1 THEN MemberTexts
    ELSE {members \o <<",", "\n">> \o member :
            members \in MembersTexts(n - 1), member \in MemberTexts}

\* an object of 1..MaxMembers members, the closing brace on the last
\* member's line or on the next one
JsonFiles ==
    {<<"{", "\n">> \o members \o closing \o <<"}">> :
        members \in UNION {MembersTexts(n) : n \in 1..MaxMembers},
        closing \in {<<>>, <<"\n">>}}

FixJsonInit ==
    /\ \E content \in JsonFiles : json_file = [content |-> content, fixed |-> FALSE]
    /\ predictor = NoPredictor
    /\ AnalyzerNotRun

\* fix_nan_in_json(file_path): read the file, substitute, write it back
FixNanInJson ==
    /\ json_file' = [content |-> fix_nan_in_json(json_file.content), fixed |-> TRUE]
    /\ UNCHANGED <<df, pc, idx, artist_data, returned, exc, summary, args, out, predictor>>

FixJsonNext == FixNanInJson

SpecFixJson == FixJsonInit /\ [][FixJsonNext]_vars

---------------------------------------------------------------------------
(* ArtistSuccessPredictor: train and predict_next_song.  The calls into    *)
(* the learning library (train_test_split, fit_transform, fit) are outside *)
(* the repository: each of them either returns or raises, and the          *)
(* popularity the fitted regressor predicts is any value of a small set.   *)

\* the songs of the analysis file: dated ones and one without a date
FileSongs ==
    { Song("H", Num(82), "hit", Text("2020-01-01")),
      Song("M", Num(45), "mid", Text("2021-01-01")),
      Song("N", Num(45), "mid", NaNText) }

\* the songs of the artist a prediction is asked for: with a date, without
\* one, and with a release date text that is not a date
PredictSongs ==
    { Song("H", Num(82), "hit", Text("2020-01-01")),
      Song("N", Num(45), "mid", NaNText),
      Song("W", Num(82), "hit", Text("notadate")) }

PredictInputs == SeqsUpTo(PredictSongs, MaxPredictSongs)

PredictedPopularity == {64, 80}

AnalyzerUnused ==
    /\ df = <<>>
    /\ pc = "idle"
    /\ idx = 1
    /\ artist_data = NoArtistData
    /\ returned = <<>>
    /\ exc = "none"
    /\ summary = NoSummary
    /\ json_file = NoFile
    /\ args = <<>>
    /\ out = [fn |-> "", rets |-> <<>>]

\* a new predictor, and an analysis file with the songs of one artist
PredictorInit ==
    /\ predictor = NoPredictor
    /\ AnalyzerUnused

analyzer == <<df, pc, idx, artist_data, returned, exc, summary, args, out, json_file>>

TrainPrepareMarkingTrained ==
    /\ predictor.pc = "idle"
    /\ predictor.train_calls < MaxTrains
    /\ \E songs \in SeqsUpTo(FileSongs, MaxHistory) :
       LET made == prepare_training_data(songs)
       IN  predictor' = [predictor EXCEPT
              !.is_trained = TRUE,
              !.train_calls = @ + 1,
              !.file = songs,
              !.made = made,
              !.exc = made.exc,
              !.pc = IF made.exc = "none" THEN "prepared" ELSE "raising"]
    /\ UNCHANGED analyzer

\* train(artist_analysis_file) is called on the file as it is now:
\* X, y_hit, ... = self.prepare_training_data(artist_analysis_file)
TrainPrepare ==
    /\ predictor.pc = "idle"
    /\ predictor.train_calls < MaxTrains
    /\ \E songs \in SeqsUpTo(FileSongs, MaxHistory) :
       LET made == prepare_training_data(songs)
       IN  predictor' = [predictor EXCEPT
              !.train_calls = @ + 1,
              !.file = songs,
              !.made = made,
              !.exc = made.exc,
              !.pc = IF made.exc = "none" THEN "prepared" ELSE "raising"]
    /\ UNCHANGED analyzer

\* the three train_test_split calls and self.scaler.fit_transform(X_train)
TrainFitScaler ==
    /\ predictor.pc = "prepared"
    /\ predictor' = [predictor EXCEPT
          !.scaler = "fitted",
          !.fitted_by.scaler = predictor.train_calls,
          !.pc = "scaled"]
    /\ UNCHANGED analyzer

\* self.hit_classifier.fit(X_train_scaled, y_hit_train_use)
TrainFitHitClassifier ==
    /\ predictor.pc = "scaled"
    /\ predictor' = [predictor EXCEPT
          !.hit_classifier = "fitted",
          !.fitted_by.hit_classifier = predictor.train_calls,
          !.pc = "classified"]
    /\ UNCHANGED analyzer

\* self.popularity_regressor.fit(X_train_scaled, y_pop_train)
TrainFitRegressor ==
    /\ predictor.pc = "classified"
    /\ predictor' = [predictor EXCEPT
          !.popularity_regressor = "fitted",
          !.fitted_by.popularity_regressor = predictor.train_calls,
          !.pc = "regressed"]
    /\ UNCHANGED analyzer

\* self.is_trained = True; self.feature_names = X.columns.tolist(); return
TrainFinish ==
    /\ predictor.pc = "regressed"
    /\ predictor' = [predictor EXCEPT
          !.is_trained = TRUE,
          !.feature_names = TRUE,
          !.fitted_by.feature_names = predictor.train_calls,
          !.pc = "trained"]
    /\ UNCHANGED analyzer

\* return {'hit_accuracy': accuracy_score(...), ...}: the scores are
\* computed and train returns
TrainReturn ==
    /\ predictor.pc = "trained"
    /\ predictor' = [predictor EXCEPT
          !.file = <<>>,
          !.made = NothingMade,
          !.pc = "idle"]
    /\ UNCHANGED analyzer

\* the library call train is about to make raises: train is left.  The
\* calls are the splits and fit_transform (from "prepared"), the fit and
\* scores of the classifier (from "scaled"), the fit of the regressor
\* (from "classified"), its predict, scores and the feature importance
\* (from "regressed") and the scores of the return statement (from
\* "trained")
TrainRaises ==
    /\ predictor.pc \in {"prepared", "scaled", "classified", "regressed", "trained"}
    /\ predictor' = [predictor EXCEPT
          !.exc = "ValueError",
          !.file = <<>>,
          !.made = NothingMade,
          !.pc = "idle"]
    /\ UNCHANGED analyzer

\* what prepare_training_data raised leaves train
TrainPrepareRaises ==
    /\ predictor.pc = "raising"
    /\ predictor' = [predictor EXCEPT
          !.file = <<>>,
          !.made = NothingMade,
          !.pc = "idle"]
    /\ UNCHANGED analyzer

\* predict_next_song(artist_data), the regressor predicting predicted
predict_next_song(self, songs, predicted) ==
    IF ~self.is_trained
    THEN [NoResult EXCEPT !.kind = "raise", !.exc = "ValueError"]
    ELSE LET features == prepare_artist_features(ArtistData(songs))
         IN  IF features.kind = "raise"
             THEN [NoResult EXCEPT !.kind = "raise", !.exc = features.exc]
             ELSE IF features.kind = "none"
             THEN [NoResult EXCEPT !.kind = "error",
                                   !.error = "Insufficient data for prediction",
                                   !.min_songs_required = 2]
             ELSE [NoResult EXCEPT !.kind = "prediction",
                                   !.predicted_popularity = predicted,
                                   !.predicted_tier = predicted_tier(predicted)]

PredictNextSong ==
    /\ predictor.pc = "idle"
    /\ \E input \in PredictInputs :
       \E predicted \in IF predict_next_song(predictor, input, 0).kind = "prediction"
                         THEN PredictedPopularity ELSE {0} :
          predictor' = [predictor EXCEPT !.call =
              [op |-> "predict_next_song", input |-> input,
               result |-> predict_next_song(predictor, input, predicted)]]
    /\ UNCHANGED analyzer

PredictorNext ==
    \/ TrainPrepare
    \/ TrainFitScaler
    \/ TrainFitHitClassifier
    \/ TrainFitRegressor
    \/ TrainFinish
    \/ TrainReturn
    \/ TrainRaises
    \/ TrainPrepareRaises
    \/ PredictNextSong

SpecPredictor == PredictorInit /\ [][PredictorNext]_vars

InRange(p) == p.kind = "num" /\ p.num \in 0..100

---------------------------------------------------------------------------
(* C1: for every integer popularity p in 0..100 estimate_song_revenue(p)   *)
(* returns benchmark[lower] + (benchmark[upper] - benchmark[lower]) *      *)
(* (p - lower) / 10 with lower = floor(p/10)*10, upper = min(lower+10,     *)
(* 100): the benchmark value itself at every multiple of 10 (500 at 0,     *)
(* 150000 at 50, 30000000 at 100) and 112500 at 45.                        *)
C1_InterpolationFormula ==
    out.fn = "estimate_song_revenue" =>
      \A i \in 1..2 :
        InRange(args[i]) =>
          LET p == args[i].num
              r == out.rets[i]
              lower == (p \div 10) * 10
              upper == Min(lower + 10, 100)
          IN  /\ r.exc = "none"
              /\ 10 * r.revenue
                   = 10 * revenue_benchmarks[lower]
                     + (revenue_benchmarks[upper] - revenue_benchmarks[lower]) * (p - lower)
              /\ (p % 10 = 0 => r.revenue = revenue_benchmarks[p])
              /\ (p = 0 => r.revenue = 500)
              /\ (p = 50 => r.revenue = 150000)
              /\ (p = 100 => r.revenue = 30000000)
              /\ (p = 45 => r.revenue = 112500)

C1_Witness ==
    /\ out.fn = "estimate_song_revenue"
    /\ args = <<Num(45), Num(100)>>
    /\ out.rets[1] = Returns(112500)
    /\ out.rets[2] = Returns(30000000)

(* C2: estimate_song_revenue is never negative and non-decreasing in       *)
(* popularity over the integers 0..100, and the 11 benchmark values are    *)
(* increasing in popularity.                                               *)
C2_NonNegativeMonotone ==
    /\ \A a, b \in DOMAIN revenue_benchmarks :
          a < b => revenue_benchmarks[a] < revenue_benchmarks[b]
    /\ (/\ out.fn = "estimate_song_revenue"
        /\ InRange(args[1]) /\ InRange(args[2])
        /\ args[1].num <= args[2].num) =>
            /\ out.rets[1].exc = "none"
            /\ out.rets[2].exc = "none"
            /\ 0 <= out.rets[1].revenue
            /\ out.rets[1].revenue <= out.rets[2].revenue

C2_Witness ==
    /\ out.fn = "estimate_song_revenue"
    /\ args = <<Num(49), Num(50)>>
    /\ out.rets[1].revenue = 142500
    /\ out.rets[2].revenue = 150000

(* C3: classify_song partitions 0..100: exactly one of hit [80,100], good  *)
(* [65,79], mid [35,64], bust [0,34] contains p, classify_song(p) is that  *)
(* tier, and it is never 'unknown' there.                                  *)
ClaimedRanges ==
    { <<"hit", 80, 100>>, <<"good", 65, 79>>, <<"mid", 35, 64>>, <<"bust", 0, 34>> }

C3_TierPartition ==
    out.fn = "classify_song" =>
      \A i \in 1..2 :
        InRange(args[i]) =>
          LET p == args[i].num
              r == out.rets[i]
              holding == {t \in ClaimedRanges : t[2] <= p /\ p <= t[3]}
          IN  /\ Cardinality(holding) = 1
              /\ r.exc = "none"
              /\ \E t \in holding : r.tier = t[1]
              /\ r.tier # "unknown"
              /\ (p = 79 => r.tier = "good") /\ (p = 80 => r.tier = "hit")
              /\ (p = 64 => r.tier = "mid")  /\ (p = 65 => r.tier = "good")
              /\ (p = 34 => r.tier = "bust") /\ (p = 35 => r.tier = "mid")

C3_Witness ==
    /\ out.fn = "classify_song"
    /\ args = <<Num(79), Num(80)>>
    /\ out.rets[1] = ReturnsTier("good")
    /\ out.rets[2] = ReturnsTier("hit")

(* C27: the tier predict_next_song derives from a predicted popularity is  *)
(* never unknown and, for every integer popularity in 0..100, is the tier  *)
(* classify_song gives that popularity.                                    *)
C27_TiersAgree ==
    out.fn = "predicted_tier" =>
        \A k \in 1..2 :
            /\ out.rets[k].tier \in {"hit", "good", "mid", "bust"}
            /\ InRange(args[k]) => out.rets[k].tier = classify_song(args[k]).tier

C27_Witness ==
    /\ out.fn = "predicted_tier"
    /\ args = <<Num(79), Num(80)>>
    /\ out.rets[1].tier = "good"
    /\ out.rets[2].tier = "hit"
    /\ classify_song(Num(79)).tier = "good"

(* C25: for every popularity that estimate_song_revenue and classify_song  *)
(* both accept without raising, the tier is unknown if and only if the     *)
(* estimated revenue is 0.                                                 *)
C25_UnknownIffNoRevenue ==
    out.fn # "" =>
        \A k \in 1..2 :
            LET tier == classify_song(args[k])
                revenue == estimate_song_revenue(args[k])
            IN  (tier.exc = "none" /\ revenue.exc = "none") =>
                    (tier.tier = "unknown" <=> revenue.revenue = 0)

---------------------------------------------------------------------------
(* Claims about the aggregation *)

\* the parsed artist list of row i, and how often it credits an artist
Credited(i) == parse_artists(df[i].Artists)
Credits(artists, a) == Cardinality({k \in 1..Len(artists) : artists[k] = a})

\* the for loop is at row idx, and has just processed it without raising
AtRow == pc = "loop" /\ idx <= Len(df)
RowProcessed == AtRow /\ pc' = "loop" /\ idx' = idx + 1

TierCounters == {"hit_songs", "good_songs", "mid_songs", "bust_songs"}

\* the mapping returned last
LastReturned == returned[Len(returned)]

(* C4: fan-out.  Processing one song whose parsed artist list is [A, B],   *)
(* A # B, adds exactly 1 to total_songs of A and of B, adds to the same    *)
(* tier counter of both, adds the revenue computed once for the song to    *)
(* both total_revenue, appends the same detail record to both song lists,  *)
(* and leaves the accumulators of all other artists unchanged.             *)
C4_FanOut ==
    [][ (RowProcessed /\ Len(Credited(idx)) = 2 /\ Credited(idx)[1] # Credited(idx)[2]) =>
          LET A == Credited(idx)[1]
              B == Credited(idx)[2]
              before(a) == Lookup(artist_data, a)
              after(a) == Lookup(artist_data', a)
              revenue == estimate_song_revenue(df[idx].Popularity).revenue
          IN  /\ {A, B} \subseteq DOMAIN artist_data'
              /\ \A a \in {A, B} :
                    /\ after(a).total_songs = before(a).total_songs + 1
                    /\ after(a).total_revenue = before(a).total_revenue + revenue
                    /\ Len(after(a).songs) = Len(before(a).songs) + 1
                    /\ SubSeq(after(a).songs, 1, Len(before(a).songs)) = before(a).songs
              /\ after(A).songs[Len(after(A).songs)] = after(B).songs[Len(after(B).songs)]
              /\ after(A).songs[Len(after(A).songs)].revenue = revenue
              /\ \A c \in TierCounters :
                    /\ after(A)[c] - before(A)[c] = after(B)[c] - before(B)[c]
                    /\ after(A)[c] - before(A)[c] \in {0, 1}
              /\ \A a \in DOMAIN artist_data' \ {A, B} :
                    a \in DOMAIN artist_data /\ artist_data'[a] = artist_data[a]
      ]_vars

\* a song of C, then a song credited to A and B: C's accumulator is the one
\* its own song made
C4_Witness ==
    /\ pc = "loop" /\ idx = 3
    /\ Credited(1) = <<ArtistC>>
    /\ Credited(2) = <<ArtistA, ArtistB>>
    /\ df[1].Popularity = Num(45)
    /\ df[2].Popularity = Num(82)
    /\ DOMAIN artist_data = {ArtistA, ArtistB, ArtistC}
    /\ artist_data[ArtistA].total_songs = 1
    /\ artist_data[ArtistA].hit_songs = 1
    /\ artist_data[ArtistA].total_revenue = 4600000
    /\ artist_data[ArtistB].total_songs = 1
    /\ artist_data[ArtistB].hit_songs = 1
    /\ artist_data[ArtistB].songs = artist_data[ArtistA].songs
    /\ artist_data[ArtistC].total_songs = 1
    /\ artist_data[ArtistC].mid_songs = 1
    /\ artist_data[ArtistC].hit_songs = 0
    /\ artist_data[ArtistC].total_revenue = 112500
    /\ Len(artist_data[ArtistC].songs) = 1

(* C5: a song whose popularity is missing does not abort the run; it is    *)
(* recorded with tier 'unknown' and revenue 0, adds 1 to total_songs for   *)
(* each credit of an artist on it, adds to none of the four tier counters  *)
(* and leaves total_revenue unchanged.                                     *)
C5_MissingPopularity ==
    [][ (AtRow /\ pd_isna(df[idx].Popularity)) =>
          /\ RowProcessed
          /\ DOMAIN artist_data' = DOMAIN artist_data \cup {Credited(idx)[k] : k \in 1..Len(Credited(idx))}
          /\ \A a \in DOMAIN artist_data' :
                LET before == Lookup(artist_data, a)
                    after == artist_data'[a]
                    n == Credits(Credited(idx), a)
                IN  /\ after.total_songs = before.total_songs + n
                    /\ \A c \in TierCounters : after[c] = before[c]
                    /\ after.total_revenue = before.total_revenue
                    /\ Len(after.songs) = Len(before.songs) + n
                    /\ \A k \in (Len(before.songs) + 1)..Len(after.songs) :
                          /\ after.songs[k].tier = "unknown"
                          /\ after.songs[k].revenue = 0
      ]_vars

C5_Witness ==
    /\ pc = "loop" /\ idx = 3
    /\ df[1].Popularity = Num(45) /\ Credited(1) = <<ArtistA>>
    /\ df[2].Popularity = NaN /\ Credited(2) = <<ArtistA, ArtistB>>
    /\ artist_data[ArtistA].total_songs = 2
    /\ artist_data[ArtistA].mid_songs = 1
    /\ artist_data[ArtistA].total_revenue = 112500
    /\ artist_data[ArtistB].total_songs = 1
    /\ artist_data[ArtistB].total_revenue = 0
    /\ artist_data[ArtistB].songs[1].tier = "unknown"

(* C6: no row's field values abort an aggregation run: also with a         *)
(* popularity that is non-numeric, negative, or 110 and above,             *)
(* analyze_artists never raises.                                           *)
C6_NoRowAbortsTheRun ==
    pc # "raised" /\ exc = "none"

(* C7: aggregating the single song {title X, artists "A, B", popularity    *)
(* 82, genre pop, not explicit, release 2020-01-01} yields exactly the     *)
(* profiles A and B, each with total_songs 1, hit_songs 1, hit_rate 100.0, *)
(* primary_genre "pop" and an estimated_total_revenue of about 2240000.    *)
ExampleSong ==
    Row("X", Chars(<<"A", ",", " ", "B">>), Num(82),
        Text("pop"), Text("No"), Text("2020-01-01"))

ExampleProfileExceptRevenue(r) ==
    /\ DOMAIN r = {ArtistA, ArtistB}
    /\ \A a \in DOMAIN r :
          /\ r[a].total_songs = 1
          /\ r[a].hit_songs = 1
          /\ r[a].hit_rate = 10000
          /\ r[a].primary_genre = Text("pop")

\* 2240000 to its three significant digits
About2240000(x) == 2235000 <= x /\ x < 2245000

C7_ExampleAsStated ==
    (df = <<ExampleSong>> /\ returned # <<>>) =>
        /\ ExampleProfileExceptRevenue(LastReturned)
        /\ \A a \in DOMAIN LastReturned :
              About2240000(LastReturned[a].estimated_total_revenue)

(* C7 as amended: the same example, with estimated_total_revenue 4600000,  *)
(* the value interpolated at 82 between the benchmarks at 80 (2000000) and *)
(* 90 (15000000).                                                          *)
C7_Example ==
    (df = <<ExampleSong>> /\ returned # <<>>) =>
        /\ ExampleProfileExceptRevenue(LastReturned)
        /\ \A a \in DOMAIN LastReturned :
              LastReturned[a].estimated_total_revenue = 4600000

C7_Witness ==
    /\ df = <<ExampleSong>>
    /\ Len(returned) = 1
    /\ pc = "idle"
    /\ returned[1][ArtistB].estimated_total_revenue = 4600000

(* C8: whenever some input song has a number of credited artists other     *)
(* than one, the sum of total_songs over all profiles differs from the     *)
(* number of input songs; the two are equal when every song has exactly    *)
(* one credited artist.                                                    *)
RECURSIVE CreditsUpTo(_)
CreditsUpTo(i) == IF i = 0 THEN 0 ELSE CreditsUpTo(i - 1) + Len(Credited(i))

SongsOfAllProfiles(r) == SumField(r, DOMAIN r, "total_songs")

C8_SumDiffersAsStated ==
    returned # <<>> =>
        /\ (\E i \in 1..Len(df) : Len(Credited(i)) # 1)
              => SongsOfAllProfiles(LastReturned) # Len(df)
        /\ (\A i \in 1..Len(df) : Len(Credited(i)) = 1)
              => SongsOfAllProfiles(LastReturned) = Len(df)

(* C8 as amended: the sum of total_songs over all profiles is the number   *)
(* of artist credits (the sum over the input songs of the length of the    *)
(* parsed artist list).  It equals the number of songs when every song has *)
(* exactly one credited artist, exceeds it when every song has at least    *)
(* one and some song more than one, and is below it when every song has at *)
(* most one and some song none.                                            *)
C8_SumIsCredits ==
    returned # <<>> =>
        LET total == SongsOfAllProfiles(LastReturned)
            rows == 1..Len(df)
        IN  /\ total = CreditsUpTo(Len(df))
            /\ (\A i \in rows : Len(Credited(i)) = 1) => total = Len(df)
            /\ ((\A i \in rows : Len(Credited(i)) >= 1)
                  /\ (\E i \in rows : Len(Credited(i)) > 1)) => total > Len(df)
            /\ ((\A i \in rows : Len(Credited(i)) <= 1)
                  /\ (\E i \in rows : Len(Credited(i)) = 0)) => total < Len(df)

\* one song without a credited artist and one with two: 2 songs, sum 2
C8_Witness ==
    /\ Len(df) = 2
    /\ Len(Credited(1)) = 0
    /\ Len(Credited(2)) = 2
    /\ df[2].Popularity = NaN
    /\ returned # <<>>
    /\ SongsOfAllProfiles(LastReturned) = 2

(* C9: the totals of get_summary_stats are exact folds of the profiles:    *)
(* total_artists is the number of profiles, total_songs the sum of         *)
(* total_songs and total_estimated_revenue the sum of                      *)
(* estimated_total_revenue over all profiles.                              *)
C9_SummaryTotals ==
    summary.computed =>
        LET r == returned[summary.of]
        IN  /\ summary.total_artists = Cardinality(DOMAIN r)
            /\ summary.total_songs = SumField(r, DOMAIN r, "total_songs")
            /\ summary.total_estimated_revenue
                 = SumField(r, DOMAIN r, "estimated_total_revenue")

C9_Witness ==
    /\ summary.computed
    /\ summary.total_artists = 2
    /\ summary.total_songs = 3
    /\ summary.total_estimated_revenue = 4600000 + 112500 + 112500
    /\ returned[summary.of][ArtistA].hit_songs = 1
    /\ returned[summary.of][ArtistA].total_songs = 2

(* C10: aggregation is idempotent and stateless across runs: every call of *)
(* analyze_artists on the same analyzer starts from an empty mapping,      *)
(* leaves the input rows as they were, and returns a mapping identical to  *)
(* the one every earlier call returned.                                    *)
C10_IdempotentRuns ==
    [][ /\ df' = df
        /\ (pc = "idle" /\ pc' = "loop") => DOMAIN artist_data' = {}
        /\ Len(returned') > Len(returned) =>
              \A k \in 1..Len(returned) : returned'[Len(returned')] = returned[k]
      ]_vars

C10_Witness ==
    /\ Len(returned) = 2
    /\ returned[1] = returned[2]
    /\ Len(df) = 2
    /\ returned[2][ArtistA].total_songs = 2
    /\ returned[2][ArtistA].estimated_total_revenue = 4600000

\* the names a row's artist field holds: the non-empty stripped pieces
NamesIn(cell) ==
    IF cell.kind # "str" THEN {}
    ELSE LET pieces == split(cell.s, ",")
         IN  {strip(pieces[i]) : i \in 1..Len(pieces)} \ {<<>>}

\* analyze_artists returns in this step
Returns_analyze_artists == pc = "loop" /\ pc' = "idle" /\ Len(returned') = Len(returned) + 1

(* C13: the keys of the returned profile mapping are exactly the names     *)
(* that occur in the artist field of at least one song, every profile has  *)
(* total_songs >= 1, and processing a song whose artist field is missing   *)
(* or holds no name changes no accumulator and creates no profile.         *)
C13_ProfileKeys ==
    [][ /\ Returns_analyze_artists =>
              LET r == returned'[Len(returned')]
              IN  /\ DOMAIN r = UNION {NamesIn(df[i].Artists) : i \in 1..Len(df)}
                  /\ \A a \in DOMAIN r : r[a].total_songs >= 1
        /\ (RowProcessed /\ NamesIn(df[idx].Artists) = {}) => artist_data' = artist_data
      ]_vars

C13_Witness ==
    /\ returned # <<>>
    /\ Len(df) = 2
    /\ df[1].Artists = Chars(<<",">>)
    /\ df[2].Artists = Chars(<<"A", ",", " ", "B">>)
    /\ DOMAIN LastReturned = {ArtistA, ArtistB}

\* a step of get_summary_stats or of save_results
SummaryStep == pc = "idle" /\ pc' = "idle" /\ returned # <<>>

(* C14: get_summary_stats is a read-only fold: the mapping passed in and   *)
(* every profile in it are the same before and after the call, and         *)
(* repeated calls on the same mapping, directly or through save_results,   *)
(* return the same summary.                                                *)
C14_SummaryReadOnly ==
    [][ /\ SummaryStep => (returned' = returned /\ artist_data' = artist_data)
        /\ (summary'.computed /\ summary.computed /\ summary'.of = summary.of)
              => summary' = summary
        /\ (summary'.computed /\ json_file'.written /\ summary'.of = json_file'.of)
              => json_file'.summary = summary'
        /\ json_file'.written =>
              json_file'.summary.total_songs
                = SumField(returned'[json_file'.of], DOMAIN returned'[json_file'.of],
                           "total_songs")
      ]_vars

C14_Witness ==
    /\ summary.computed
    /\ json_file.written
    /\ summary.of = 1
    /\ json_file.of = 1
    /\ Len(returned) = 2
    /\ summary.total_songs = 3
    /\ json_file.summary = summary

(* C12: the JSON file save_results writes never holds a NaN token: every   *)
(* value of the file is written as a string, a number or null.             *)
C12_NoNaNInFile ==
    json_file.written => "NaN" \notin FileTokens(json_file)

\* how many records of the songs list have tier unknown
UnknownSongs(songs) == Cardinality({i \in 1..Len(songs) : songs[i].tier = "unknown"})

\* the counters of an accumulator or of a profile add up to its songs
CountersAddUp(data) ==
    /\ data.hit_songs + data.good_songs + data.mid_songs + data.bust_songs
         + UnknownSongs(data.songs) = data.total_songs
    /\ data.total_songs = Len(data.songs)

(* C24: after any prefix of the rows and in every returned profile, for    *)
(* each artist: hit + good + mid + bust + the number of the artist's songs *)
(* of tier unknown = total_songs = the length of the songs list; the genre *)
(* counts sum to at most total_songs; explicit_count is at most            *)
(* total_songs.                                                            *)
C24_CountersAddUp ==
    /\ \A a \in DOMAIN artist_data :
          /\ CountersAddUp(artist_data[a])
          /\ SumOf(artist_data[a].genres, "count") <= artist_data[a].total_songs
          /\ artist_data[a].explicit_count <= artist_data[a].total_songs
    /\ \A k \in 1..Len(returned) : \A a \in DOMAIN returned[k] :
          /\ CountersAddUp(returned[k][a])
          /\ SumOf(returned[k][a].genre_distribution, "count") <= returned[k][a].total_songs
          /\ returned[k][a].explicit_ratio <= 10000

\* after the first of two rows: one song of A, explicit, without genre and
\* of tier unknown
C24_Witness ==
    /\ pc = "loop"
    /\ idx = 2
    /\ Len(df) = 2
    /\ ArtistA \in DOMAIN artist_data
    /\ artist_data[ArtistA].total_songs = 1
    /\ artist_data[ArtistA].bust_songs = 0
    /\ UnknownSongs(artist_data[ArtistA].songs) = 1
    /\ artist_data[ArtistA].explicit_count = 1
    /\ artist_data[ArtistA].genres = <<>>

---------------------------------------------------------------------------
(* Claims about the derived fields of a profile, checked on SpecProfiles *)

\* the credits of artist a, in row order: a row appears once per credit
RECURSIVE CreditedRows(_, _)
CreditedRows(a, n) ==
    IF n = 0 THEN <<>>
    ELSE CreditedRows(a, n - 1)
         \o [k \in 1..Credits(Credited(n), a) |-> df[n]]

SongsOf(a) == CreditedRows(a, Len(df))

\* how many credited songs of a have genre g
GenreCount(songs, g) ==
    Cardinality({i \in 1..Len(songs) : songs[i].Genre = Text(g)})

\* the position of the first credited song of a with genre g
FirstWithGenre(songs, g) ==
    CHOOSE i \in 1..Len(songs) :
        /\ songs[i].Genre = Text(g)
        /\ \A j \in 1..(i - 1) : songs[j].Genre # Text(g)

GenresOf(songs) ==
    {songs[i].Genre.s : i \in {j \in 1..Len(songs) : songs[j].Genre.kind = "str"}}

(* C15: primary_genre is a genre whose count among the artist's credited   *)
(* songs is maximal, the first encountered one among ties; it is None      *)
(* exactly when no credited song has a genre; a song with a missing genre  *)
(* adds no entry to the genre counts.                                      *)
C15_PrimaryGenre ==
    returned # <<>> =>
        \A a \in DOMAIN LastReturned : \A songs \in {SongsOf(a)} :
            LET profile == LastReturned[a]
                dist == profile.genre_distribution
            IN  /\ (profile.primary_genre = NoneText) <=> (GenresOf(songs) = {})
                /\ {dist[i].genre : i \in DOMAIN dist} = GenresOf(songs)
                /\ \A i \in DOMAIN dist : dist[i].count = GenreCount(songs, dist[i].genre)
                /\ GenresOf(songs) # {} =>
                      /\ profile.primary_genre.kind = "str"
                      /\ profile.primary_genre.s \in GenresOf(songs)
                      /\ \A g \in GenresOf(songs) \ {profile.primary_genre.s} :
                            \/ GenreCount(songs, g) < GenreCount(songs, profile.primary_genre.s)
                            \/ /\ GenreCount(songs, g) = GenreCount(songs, profile.primary_genre.s)
                               /\ FirstWithGenre(songs, profile.primary_genre.s)
                                    < FirstWithGenre(songs, g)

\* A: a song without genre, then rock, then pop: a tie the first one wins
C15_Witness ==
    /\ returned # <<>>
    /\ Len(df) = 3
    /\ df[1].song = "S"
    /\ df[2].song = "Q"
    /\ df[3].song = "P"
    /\ LastReturned[ArtistA].primary_genre = Text("rock")
    /\ Len(LastReturned[ArtistA].genre_distribution) = 2

\* the positions of the credited songs of a whose release date parses
DatedSongs(songs) ==
    {i \in 1..Len(songs) :
        /\ songs[i].ReleaseDate.kind = "str"
        /\ DayNumber(songs[i].ReleaseDate.s) # 0}

DaysOf(songs) == {DayNumber(songs[i].ReleaseDate.s) : i \in DatedSongs(songs)}

(* C16: songs whose release date is missing or does not parse are left out *)
(* of the career timeline.  With no parseable date career_span_years is 0  *)
(* and first_release and last_release are absent; otherwise first_release  *)
(* is the earliest and last_release the latest parsed date, and            *)
(* career_span_years is the days between them / 365.25 rounded to 2        *)
(* decimals, which is 0 when exactly one song is dated.                    *)
C16_CareerTimeline ==
    returned # <<>> =>
        \A a \in DOMAIN LastReturned : \A songs \in {SongsOf(a)} :
            LET profile == LastReturned[a]
                span == profile.career_span_years      \* in hundredths of a year
                days == profile.last_release.day - profile.first_release.day
            IN  IF DaysOf(songs) = {}
                THEN /\ span = 0
                     /\ profile.first_release = NoDate
                     /\ profile.last_release = NoDate
                ELSE /\ profile.first_release.kind = "date"
                     /\ profile.last_release.kind = "date"
                     /\ profile.first_release.day \in DaysOf(songs)
                     /\ profile.last_release.day \in DaysOf(songs)
                     /\ \A d \in DaysOf(songs) :
                            profile.first_release.day <= d /\ d <= profile.last_release.day
                     \* |span / 100 - days / 365.25| <= 0.005
                     /\ 2 * span * 1461 - 2 * days * 400 <= 1461
                     /\ 2 * days * 400 - 2 * span * 1461 <= 1461
                     /\ Cardinality(DatedSongs(songs)) = 1 => span = 0

\* A: a song of 2021, one whose date does not parse, one of 2020;
\* B: one song, without a date
C16_Witness ==
    /\ returned # <<>>
    /\ Len(df) = 3
    /\ df[1].song = "Q"
    /\ df[2].song = "S"
    /\ df[3].song = "P"
    /\ LastReturned[ArtistA].first_release = Date(737425)
    /\ LastReturned[ArtistA].last_release = Date(737791)
    /\ LastReturned[ArtistA].career_span_years = 100

\* the positions of the credited songs of a with a value for feature f
WithValue(songs, f) ==
    {i \in 1..Len(songs) : songs[i].features[f].kind = "num"}

RECURSIVE SumOver(_, _, _)
SumOver(songs, f, positions) ==
    IF positions = {} THEN 0
    ELSE LET i == CHOOSE k \in positions : TRUE
         IN  songs[i].features[f].num + SumOver(songs, f, positions \ {i})

Permuted ==
    LET n == Len(df)
        orders == {q \in [1..n -> 1..n] : \A i, j \in 1..n : q[i] = q[j] => i = j}
    IN  {[i \in 1..n |-> df[q[i]]] : q \in orders}

\* dict equality: the genre counts as a mapping, whatever the insertion order
AsMapping(dist) == {dist[i] : i \in DOMAIN dist}

\* the list as a bag of song records
AsBag(songs) ==
    [s \in {songs[i] : i \in DOMAIN songs} |->
        Cardinality({i \in DOMAIN songs : songs[i] = s})]

\* two or more genres tie for the highest count among the songs of a
GenresTie(songs) ==
    \E g, h \in GenresOf(songs) :
        /\ g # h
        /\ GenreCount(songs, g) = GenreCount(songs, h)
        /\ \A k \in GenresOf(songs) : GenreCount(songs, k) <= GenreCount(songs, g)

Masked(profile, fields) ==
    [f \in DOMAIN profile \ fields |->
        IF f = "genre_distribution" THEN AsMapping(profile[f]) ELSE profile[f]]

---------------------------------------------------------------------------
(* Claims about the predictor, checked on SpecPredictor *)

\* predict_next_song is called and returns or raises in this step
PredictCall ==
    /\ predictor.pc = "idle"
    /\ predictor'.call.op = "predict_next_song"
    /\ predictor'.call # predictor.call

\* train is called in this step: prepare_training_data returns or raises
TrainCall ==
    /\ predictor.pc = "idle"
    /\ predictor'.call = predictor.call
    /\ predictor' # predictor

(* C18: is_trained is False on a new predictor, and predict_next_song      *)
(* raises ValueError whenever is_trained is False; is_trained becomes True *)
(* only in the last step of train, after the hit classifier and the        *)
(* popularity regressor have been fitted.                                  *)
C18_TrainedOnlyByTrain ==
    /\ predictor.is_trained = FALSE
    /\ [][ /\ (PredictCall /\ ~predictor.is_trained) =>
                /\ predictor'.call.result.kind = "raise"
                /\ predictor'.call.result.exc = "ValueError"
                /\ ~predictor'.is_trained
           /\ (~predictor.is_trained /\ predictor'.is_trained) =>
                /\ predictor.pc = "regressed"
                /\ predictor'.pc = "trained"
                /\ predictor.scaler = "fitted"
                /\ predictor.hit_classifier = "fitted"
                /\ predictor.popularity_regressor = "fitted"
         ]_vars

\* a prediction asked of the new predictor raised, then train finished
C18_Witness ==
    /\ predictor.is_trained
    /\ predictor.call.op = "predict_next_song"
    /\ predictor.call.input = <<>>
    /\ predictor.call.result.kind = "raise"
    /\ predictor.call.result.exc = "ValueError"
    /\ predictor.hit_classifier = "fitted"
    /\ predictor.popularity_regressor = "fitted"

\* how many songs have a release date that is present
PresentDates(songs) ==
    Cardinality({i \in 1..Len(songs) : songs[i].release_date.kind = "str"})

(* C19: on a trained predictor predict_next_song returns the error value   *)
(* {'error': 'Insufficient data for prediction', 'min_songs_required': 2}  *)
(* exactly when the artist has fewer than 2 songs with a present           *)
(* release_date, and otherwise a prediction record without an error key;   *)
(* the call leaves the trained state unchanged.                            *)
C19_ErrorValueOrPrediction ==
    [][ (PredictCall /\ predictor.is_trained) =>
          LET result == predictor'.call.result
          IN  /\ PresentDates(predictor'.call.input) < 2 =>
                    /\ result.kind = "error"
                    /\ result.error = "Insufficient data for prediction"
                    /\ result.min_songs_required = 2
              /\ PresentDates(predictor'.call.input) >= 2 => result.kind = "prediction"
              /\ predictor' = [predictor EXCEPT !.call = predictor'.call]
      ]_vars

(* C20: prepare_training_data makes, of an artist with n >= 3 dated songs, *)
(* one example for each i in 0..n-3 (n - 2 examples), with songs[0..i] as  *)
(* the history and songs[i+1] as the target, and no example of an artist   *)
(* with fewer than 3 dated songs.                                          *)
C20_TrainingExamples ==
    [][ TrainCall =>
          \A sorted \in {songs_sorted(valid_songs(predictor'.file))} :
              LET n == Len(sorted)
                  examples == predictor'.made.examples
              IN  IF n < 3 THEN examples = <<>>
                  ELSE /\ Len(examples) = n - 2
                       /\ \A k \in 1..Len(examples) :
                            /\ examples[k].i = k - 1
                            /\ examples[k].historical_songs = SubSeq(sorted, 1, k)
                            /\ examples[k].target_song = sorted[k + 1]
      ]_vars

(* C28: no look-ahead in the training data.  Every feature of the example *)
(* prepare_training_data makes for index i depends only on the historical  *)
(* songs sorted[0..i]: an artist of any other file whose date-sorted songs *)
(* agree on sorted[0..i], whatever its target song and its later songs,    *)
(* gets the same features for that example; and the history of an example  *)
(* ends before its target song.                                            *)
C28_NoLookAhead ==
    predictor.pc = "prepared" =>
        \A sorted \in {songs_sorted(valid_songs(predictor.file))} :
        \A e \in {predictor.made.examples[k] : k \in 1..Len(predictor.made.examples)} :
            /\ e.historical_songs = SubSeq(sorted, 1, e.i + 1)
            /\ e.target_song = sorted[e.i + 2]
            /\ \A songs \in SeqsUpTo(FileSongs, MaxHistory) :
               \A other \in {training_examples(songs).examples} :
               \A k \in 1..Len(other) :
                  (other[k].i = e.i /\ other[k].historical_songs = e.historical_songs)
                      => other[k].features = e.features

(* C26: between calls, whenever is_trained is True the scaler, the hit     *)
(* classifier, the popularity regressor and feature_names were all fitted  *)
(* or set by the same call of train, also after a later call of train that *)
(* raised part-way.                                                        *)
C26_SameTrainCall ==
    (predictor.pc = "idle" /\ predictor.is_trained) =>
        /\ predictor.fitted_by.scaler = predictor.fitted_by.feature_names
        /\ predictor.fitted_by.hit_classifier = predictor.fitted_by.feature_names
        /\ predictor.fitted_by.popularity_regressor = predictor.fitted_by.feature_names

---------------------------------------------------------------------------
(* Claims about the hotness score, checked on SpecHotness *)

(* C21: for recent_avg_pop in [0, 100], recent_hit_rate in [0, 1] and any  *)
(* whole number of days since the last release, negative ones included,    *)
(* calculate_hotness_score returns a value in [0, 100]; its performance    *)
(* component is in [0, 40], its recency component in [0, 30] and its       *)
(* success component in [0, 30].                                           *)
C21_HotnessInRange ==
    out.fn = "calculate_hotness_score" =>
        /\ 0 <= out.rets[1] /\ out.rets[1] <= 100000
        /\ 0 <= performance_score(args.recent_avg_pop)
        /\ performance_score(args.recent_avg_pop) <= 40000
        /\ 0 <= recency_score(args.days_since_last)
        /\ recency_score(args.days_since_last) <= 30000
        /\ 0 <= success_score(args.recent_hit_rate)
        /\ success_score(args.recent_hit_rate) <= 30000
        /\ out.rets[1] <= performance_score(args.recent_avg_pop)
                            + recency_score(args.days_since_last)
                            + success_score(args.recent_hit_rate)

\* a release dated 5 days ahead, five hits of popularity 100: 40 + 30 + 30
C21_Witness ==
    /\ out.fn = "calculate_hotness_score"
    /\ args.days_since_last = 0 - 5
    /\ args.recent_avg_pop = 10000
    /\ args.recent_hit_rate = 100
    /\ out.rets[1] = 100000

(* C22: the recency component does not increase with the days since the    *)
(* last release, is 30 at 0 days, and is 0 for every number of days of 365 *)
(* or more.                                                                *)
C22_RecencyDecays ==
    out.fn = "calculate_hotness_score" =>
        /\ recency_score(0) = 30000
        /\ \A later \in DaysSinceLast :
              args.days_since_last <= later =>
                  recency_score(later) <= recency_score(args.days_since_last)
        /\ args.days_since_last >= 365 => recency_score(args.days_since_last) = 0

---------------------------------------------------------------------------
(* Claims about fix_nan_in_json, checked on SpecFixJson *)

(* C23: after fix_nan_in_json has run on a file no NaN token is left in    *)
(* it, whether the NaN was the value of a member, followed by a comma, a   *)
(* newline or a closing brace, or an element of an array.                  *)
C23_NoNaNRemains ==
    json_file.fixed =>
        \A i \in 1..Len(json_file.content) : json_file.content[i] # "NaN"

=============================================================================
